---- MODULE Spec2Model ----
(***************************************************************************)
(* Model of the fp path tracer of pt-three-ways:                           *)
(*   - fp::render, the parallel sample scheduler   (src/src/fp/Render.cpp) *)
(*   - fp::radiance / fp::intersect / renderWholeScreen       (Render.cpp) *)
(*   - fp::Sphere::intersect and oo::Sphere::intersect        (Sphere.cpp) *)
(*                                                                         *)
(* Spec          one call of fp::render, main thread and std::async        *)
(*               workers interleaved step by step.                         *)
(* FairSpec      Spec with the scheduler's fairness (every thread that can *)
(*               run eventually runs).                                     *)
(* SpecTwoRuns   Spec followed by a second call with the same parameters.  *)
(* SpecRadiance, SpecSphere, SpecPixelSeed                                 *)
(*               apply the pure functions to inputs from bounded sets.     *)
(***************************************************************************)
EXTENDS Integers, Sequences, FiniteSets, Bags, TLC

VARIABLES
    params,     \* RenderParams of the call: seed, samplesPerPixel, maxCpus
    pc,         \* position of the orchestrating thread inside render
    seed,       \* render's local `seed`, captured by reference by the workers
    numDone,    \* render's local `numDone`
    output,     \* render's local `output`, the accumulator ArrayOutput
    sample,     \* outer loop counter
    ss,         \* inner (launch) loop counter
    futures,    \* std::vector<std::future<ArrayOutput>> of the current batch
    fi,         \* position of the range-for over `futures`
    received,   \* history: seeds passed to renderWholeScreen, in call order
    calls,      \* history: invocations of updateFunc, <<numDone, output>>
    progress,   \* history: arguments of progressifier.update
    batches,    \* history: number of workers launched in each batch
    run,        \* which call of render this is (1 or 2)
    prevOutput, \* return value of the first call, once a second one runs
    call,       \* pure-function specifications: the arguments applied
    ret         \* pure-function specifications: the value returned

renderVars == <<params, pc, seed, numDone, output, sample, ss, futures, fi,
                received, calls, progress, batches, run, prevOutput>>
vars == <<params, pc, seed, numDone, output, sample, ss, futures, fi,
          received, calls, progress, batches, run, prevOutput, call, ret>>

----------------------------------------------------------------------------
(* Bounds of the model.                                                    *)

MaxSamples == 3
MaxCpus == 3
MaxSeed == 1

Min(a, b) == IF a < b THEN a ELSE b

NoCall == [fn |-> "none"]

----------------------------------------------------------------------------
(* ArrayOutput of the scheduler.  renderWholeScreen(camera, scene, s,      *)
(* params) is a function of s alone once camera, scene and params are      *)
(* fixed, so the frame it returns is represented by the seed it was given, *)
(* and an accumulator by the bag of the frames summed into it (operator+=  *)
(* is exact, commutative and associative).                                 *)

ZeroOutput == EmptyBag

Frame(s) == SetToBag({s})

AddOutput(a, b) == a (+) b

FramesIn(a) == BagCardinality(a)

----------------------------------------------------------------------------
(* fp::render                                                              *)

\* A worker that has not evaluated `seed++` yet holds no argument.
NoSeed == -1

NewFuture == [state |-> "started", tmp |-> NoSeed, arg |-> NoSeed,
              result |-> ZeroOutput]

\* std::min(samplesPerPixel, sample + maxCpus), the bound of the launch loop
BatchEnd_all(s) == params.samplesPerPixel
BatchEnd(s) == Min(params.samplesPerPixel, s + params.maxCpus)

\* future.wait(): the shared state is ready once the worker has returned
FutureReady_nowait(f) == f.state # "taken"
FutureReady(f) == f.state = "ready"

\* numDone++
NumDoneAfter_batch(n) == n + Len(futures)
NumDoneAfter(n) == n + 1

\* render's locals at entry (lines 154-157)
RenderEntry(p) ==
    /\ params = p
    /\ pc = "loop"
    /\ seed = params.seed
    /\ numDone = 0
    /\ output = ZeroOutput
    /\ sample = 0
    /\ ss = 0
    /\ futures = <<>>
    /\ fi = 1
    /\ received = <<>>
    /\ calls = <<>>
    /\ progress = <<>>
    /\ batches = <<>>
    /\ run = 1
    /\ prevOutput = ZeroOutput

RenderInit ==
    \E p \in [seed : 0..MaxSeed,
              samplesPerPixel : 0..MaxSamples,
              maxCpus : 0..MaxCpus] : RenderEntry(p)

\* for (sample = 0; sample < samplesPerPixel; ...) { vector futures; ss = sample
LoopEnter ==
    /\ pc = "loop"
    /\ sample < params.samplesPerPixel
    /\ pc' = "launch"
    /\ futures' = <<>>
    /\ ss' = sample
    /\ UNCHANGED <<params, seed, numDone, output, sample, fi, received, calls,
                   progress, batches, run, prevOutput, call, ret>>

\* the loop condition fails: return output
LoopExit ==
    /\ pc = "loop"
    /\ ~(sample < params.samplesPerPixel)
    /\ pc' = "done"
    /\ UNCHANGED <<params, seed, numDone, output, sample, ss, futures, fi,
                   received, calls, progress, batches, run, prevOutput,
                   call, ret>>

\* futures.emplace_back(std::async(std::launch::async, [&]{...})); ++ss
LaunchWorker ==
    /\ pc = "launch"
    /\ ss < BatchEnd(sample)
    /\ futures' = Append(futures, NewFuture)
    /\ ss' = ss + 1
    /\ batches' = IF ss = sample
                  THEN Append(batches, 1)
                  ELSE [batches EXCEPT ![Len(batches)] = @ + 1]
    /\ UNCHANGED <<params, pc, seed, numDone, output, sample, fi, received,
                   calls, progress, run, prevOutput, call, ret>>

\* the launch loop ends; the range-for over futures begins
LaunchDone ==
    /\ pc = "launch"
    /\ ~(ss < BatchEnd(sample))
    /\ pc' = "join"
    /\ fi' = 1
    /\ UNCHANGED <<params, seed, numDone, output, sample, ss, futures,
                   received, calls, progress, batches, run, prevOutput,
                   call, ret>>

\* future.wait(); output += future.get(); numDone++;
\* progressifier.update(numDone); updateFunc(output);
JoinFuture ==
    /\ pc = "join"
    /\ fi <= Len(futures)
    /\ FutureReady(futures[fi])
    /\ output' = AddOutput(output, futures[fi].result)
    /\ numDone' = NumDoneAfter(numDone)
    /\ progress' = Append(progress, numDone')
    /\ calls' = Append(calls, [numDone |-> numDone', output |-> output'])
    /\ futures' = [futures EXCEPT ![fi].state = "taken"]
    /\ fi' = fi + 1
    /\ UNCHANGED <<params, pc, seed, sample, ss, received, batches, run,
                   prevOutput, call, ret>>

\* the range-for ends; futures is destroyed; sample += maxCpus
BatchDone ==
    /\ pc = "join"
    /\ ~(fi <= Len(futures))
    /\ sample' = sample + params.maxCpus
    /\ futures' = <<>>
    /\ pc' = "loop"
    /\ UNCHANGED <<params, seed, numDone, output, ss, fi, received, calls,
                   progress, batches, run, prevOutput, call, ret>>

(* The worker lambda [&]{ return renderWholeScreen(camera, scene, seed++,  *)
(* renderParams); }.  `seed` is a plain size_t shared by every worker of   *)
(* the batch, so the read and the write of seed++ are separate steps that  *)
(* other workers' steps may come between.                                  *)

\* seed++ : read the old value
WorkerLoad(i) ==
    /\ futures[i].state = "started"
    /\ futures' = [futures EXCEPT ![i].state = "loaded", ![i].tmp = seed]
    /\ UNCHANGED <<params, pc, seed, numDone, output, sample, ss, fi,
                   received, calls, progress, batches, run, prevOutput,
                   call, ret>>

\* seed++ : write old value + 1; renderWholeScreen is called with the old value
WorkerStore(i) ==
    /\ futures[i].state = "loaded"
    /\ seed' = futures[i].tmp + 1
    /\ futures' = [futures EXCEPT ![i].state = "rendering",
                                  ![i].arg = futures[i].tmp]
    /\ received' = Append(received, futures[i].tmp)
    /\ UNCHANGED <<params, pc, numDone, output, sample, ss, fi, calls,
                   progress, batches, run, prevOutput, call, ret>>

\* renderWholeScreen returns; the future becomes ready
WorkerFinish(i) ==
    /\ futures[i].state = "rendering"
    /\ futures' = [futures EXCEPT ![i].state = "ready",
                                  ![i].result = Frame(futures[i].arg)]
    /\ UNCHANGED <<params, pc, seed, numDone, output, sample, ss, fi,
                   received, calls, progress, batches, run, prevOutput,
                   call, ret>>

WorkerStep(i) ==
    /\ i \in DOMAIN futures
    /\ (WorkerLoad(i) \/ WorkerStore(i) \/ WorkerFinish(i))

MainStep == LoopEnter \/ LoopExit \/ LaunchWorker \/ LaunchDone
            \/ JoinFuture \/ BatchDone

\* A second call of render with the same camera, scene and RenderParams,
\* made after the first has returned.
Rerun ==
    /\ pc = "done"
    /\ run = 1
    /\ run' = 2
    /\ prevOutput' = output
    /\ pc' = "loop"
    /\ seed' = params.seed
    /\ numDone' = 0
    /\ output' = ZeroOutput
    /\ sample' = 0
    /\ ss' = 0
    /\ futures' = <<>>
    /\ fi' = 1
    /\ received' = <<>>
    /\ calls' = <<>>
    /\ progress' = <<>>
    /\ batches' = <<>>
    /\ UNCHANGED <<params, call, ret>>

Init == RenderInit /\ call = NoCall /\ ret = NoCall

\* the pure functions are applied with no render in progress
InitPure ==
    /\ RenderEntry([seed |-> 0, samplesPerPixel |-> 0, maxCpus |-> 1])
    /\ call = NoCall
    /\ ret = NoCall

Next ==
    \/ LoopEnter
    \/ LoopExit
    \/ LaunchWorker
    \/ LaunchDone
    \/ JoinFuture
    \/ BatchDone
    \/ \E i \in DOMAIN futures : WorkerLoad(i)
    \/ \E i \in DOMAIN futures : WorkerStore(i)
    \/ \E i \in DOMAIN futures : WorkerFinish(i)

Spec == Init /\ [][Next]_vars

\* The orchestrating thread runs whenever it can, and every std::async
\* worker (std::launch::async: its own thread) runs to completion.
FairSpec ==
    /\ Init
    /\ [][Next]_vars
    /\ WF_vars(MainStep)
    /\ \A i \in 1..MaxCpus : WF_vars(WorkerStep(i))

NextTwoRuns == Next \/ Rerun

SpecTwoRuns == Init /\ [][NextTwoRuns]_vars

----------------------------------------------------------------------------
(* Geometry toolkit (math/Vec3.h, math/Ray.h, math/Hit.h, math/Epsilon.h). *)
(* Lengths are integers counted in units of Epsilon, vectors are triples.  *)
(* The inputs are drawn so that every square root and every normalisation  *)
(* below is exact: rays run along the x axis and a sphere's centre is      *)
(* offset from the ray's line by 0, by its radius, or by more.             *)

Epsilon == 1

Vec(x, y, z) == <<x, y, z>>

VAdd(a, b) == <<a[1] + b[1], a[2] + b[2], a[3] + b[3]>>

VSub(a, b) == <<a[1] - b[1], a[2] - b[2], a[3] - b[3]>>

VScale(a, k) == <<a[1] * k, a[2] * k, a[3] * k>>

VNeg(a) == <<-a[1], -a[2], -a[3]>>

Dot(a, b) == a[1] * b[1] + a[2] * b[2] + a[3] * b[3]

LengthSquared(a) == Dot(a, a)

\* sqrt, exact on the perfect squares the inputs produce
Sqrt(n) == CHOOSE k \in 0..n : k * k <= n /\ n < (k + 1) * (k + 1)

\* Vec3::normalised, exact for the axis-parallel vectors the inputs produce
Normalised(a) ==
    LET len == Sqrt(LengthSquared(a))
    IN  <<a[1] \div len, a[2] \div len, a[3] \div len>>

\* Ray::positionAlong
PositionAlong(ray, t) == VAdd(ray.origin, VScale(ray.direction, t))

NoHit == [hit |-> FALSE]

----------------------------------------------------------------------------
(* Sphere::intersect, src/src/fp/Sphere.cpp and src/src/oo/Sphere.cpp      *)

\* auto b = op.dot(ray.direction())
SphereB(sphere, ray) == Dot(VSub(sphere.centre, ray.origin), ray.direction)

\* auto determinant = b * b - op.lengthSquared() + radiusSquared
SphereDeterminant(sphere, ray) ==
    LET op == VSub(sphere.centre, ray.origin)
        radiusSquared == sphere.radius * sphere.radius
        b == Dot(op, ray.direction)
    IN  b * b - LengthSquared(op) + radiusSquared

\* auto minusT = b - determinant (after determinant = sqrt(determinant))
SphereMinusT(sphere, ray) ==
    SphereB(sphere, ray) - Sqrt(SphereDeterminant(sphere, ray))

\* auto plusT = b + determinant
SpherePlusT(sphere, ray) ==
    SphereB(sphere, ray) + Sqrt(SphereDeterminant(sphere, ray))

\* if (minusT < Epsilon && plusT < Epsilon) return {};
BothRootsRejected(minusT, plusT) == minusT < Epsilon /\ plusT < Epsilon

\* auto t = minusT > Epsilon ? minusT : plusT;
ChooseRoot(minusT, plusT) == IF minusT > Epsilon THEN minusT ELSE plusT

\* lines 22-26: the Hit built for distance t (Hit::inside, read by
\* singleRay, is not among the three members set here and keeps its default)
SphereHit(sphere, ray, t) ==
    LET hitPosition == PositionAlong(ray, t)
        normal == Normalised(VSub(hitPosition, sphere.centre))
    IN  [hit |-> TRUE,
         inside |-> FALSE,
         distance |-> t,
         position |-> hitPosition,
         normal |-> IF Dot(normal, ray.direction) > 0
                    THEN VNeg(normal) ELSE normal]

\* std::optional<Hit> fp::Sphere::intersect(const Ray &ray) const
FpSphereIntersect(sphere, ray) ==
    IF SphereDeterminant(sphere, ray) < 0
    THEN NoHit
    ELSE LET minusT == SphereMinusT(sphere, ray)
             plusT == SpherePlusT(sphere, ray)
         IN  IF BothRootsRejected(minusT, plusT)
             THEN NoHit
             ELSE SphereHit(sphere, ray, ChooseRoot(minusT, plusT))

\* bool oo::Sphere::intersect(const Ray &ray, Hit &hit) const: the value
\* returned and `hit` afterwards (left alone when false is returned)
OoSphereIntersect(sphere, ray, hit) ==
    IF SphereDeterminant(sphere, ray) < 0
    THEN [ok |-> FALSE, hit |-> hit]
    ELSE LET minusT == SphereMinusT(sphere, ray)
             plusT == SpherePlusT(sphere, ray)
         IN  IF BothRootsRejected(minusT, plusT)
             THEN [ok |-> FALSE, hit |-> hit]
             ELSE [ok |-> TRUE,
                   hit |-> SphereHit(sphere, ray, ChooseRoot(minusT, plusT))]

MaxCoord == 4
MaxRadius == 2

XDirections == {Vec(1, 0, 0), Vec(-1, 0, 0)}

SphereInputs ==
    {[centre |-> Vec(cx, cy, 0), radius |-> r] :
        cx \in (-MaxCoord)..MaxCoord, cy \in 0..(MaxRadius + 1),
        r \in 1..MaxRadius}

\* the centre lies on the ray's line, one radius away from it, or further
ExactSphere(sphere) ==
    \/ sphere.centre[2] = 0
    \/ sphere.centre[2] >= sphere.radius

RayInputs ==
    {[origin |-> Vec(ox, 0, 0), direction |-> d] :
        ox \in (-1)..1, d \in XDirections}

CallFpSphere ==
    /\ call = NoCall
    /\ \E sphere \in SphereInputs, ray \in RayInputs :
        /\ ExactSphere(sphere)
        /\ call' = [fn |-> "fp::Sphere::intersect",
                    sphere |-> sphere, ray |-> ray]
        /\ ret' = FpSphereIntersect(sphere, ray)
        /\ UNCHANGED renderVars

CallOoSphere ==
    /\ call = NoCall
    /\ \E sphere \in SphereInputs, ray \in RayInputs :
        /\ ExactSphere(sphere)
        /\ call' = [fn |-> "oo::Sphere::intersect",
                    sphere |-> sphere, ray |-> ray]
        /\ ret' = LET r == OoSphereIntersect(sphere, ray, NoHit)
                  IN  IF r.ok THEN r.hit ELSE NoHit
        /\ UNCHANGED renderVars

NextSphere ==
    \/ CallFpSphere
    \/ CallOoSphere

SpecSphere == InitPure /\ [][NextSphere]_vars

\* C9: Sphere::intersect (fp and oo) reports a hit only with distance
\* strictly greater than Epsilon: the smaller root when it exceeds Epsilon,
\* otherwise the larger root when that one exceeds Epsilon, and no hit when
\* neither root exceeds Epsilon (a root equal to Epsilon included).
C9_HitBeyondEpsilon ==
    (/\ call.fn \in {"fp::Sphere::intersect", "oo::Sphere::intersect"}
     /\ SphereDeterminant(call.sphere, call.ray) >= 0) =>
        LET minusT == SphereMinusT(call.sphere, call.ray)
            plusT == SpherePlusT(call.sphere, call.ray)
        IN  /\ ret.hit => ret.distance > Epsilon
            /\ minusT > Epsilon => (ret.hit /\ ret.distance = minusT)
            /\ (minusT <= Epsilon /\ plusT > Epsilon) =>
                   (ret.hit /\ ret.distance = plusT)
            /\ (minusT <= Epsilon /\ plusT <= Epsilon) => ~ret.hit

----------------------------------------------------------------------------
(* fp::intersect and fp::radiance, src/src/fp/Render.cpp                   *)
(*                                                                         *)
(* A colour is one integer channel.  Emission and environment colours are  *)
(* multiples of 4, so that the division by numUSamples * numVSamples (1, 2 *)
(* or 4) is exact.  A primitive is a SpherePrimitive (Triangle::intersect  *)
(* is not part of the source).                                             *)

Black == 0

NoRecord == [found |-> FALSE]

\* IntersectVisitor::operator()(const SpherePrimitive &) via map (lines 26-41)
IntersectPrimitive(primitive, ray) ==
    LET hit == FpSphereIntersect(primitive.sphere, ray)
    IN  IF hit.hit
        THEN [found |-> TRUE, hit |-> hit, material |-> primitive.material]
        ELSE NoRecord

\* the loop of intersect(scene, ray), from primitive k on, `nearest` so far
RECURSIVE IntersectFrom(_, _, _, _)
IntersectFrom(primitives, ray, k, nearest) ==
    IF k > Len(primitives)
    THEN nearest
    ELSE LET thisIntersection == IntersectPrimitive(primitives[k], ray)
         IN  IF /\ thisIntersection.found
                /\ (\/ ~nearest.found
                    \/ thisIntersection.hit.distance < nearest.hit.distance)
             THEN IntersectFrom(primitives, ray, k + 1, thisIntersection)
             ELSE IntersectFrom(primitives, ray, k + 1, nearest)

\* std::optional<IntersectionRecord> intersect(const Scene &, const Ray &)
IntersectScene(scene, ray) == IntersectFrom(scene.primitives, ray, 1, NoRecord)

(* std::mt19937 and std::uniform_real_distribution<>(0, 1): a generator    *)
(* state and a draw k standing for k / UnitRes in [0, 1).                  *)
UnitRes == 4
RngMod == 16

RngDraw(rng) == [value |-> rng % UnitRes, rng |-> (5 * rng + 3) % RngMod]

(* math/Samples.h and Vec3 on the x axis: incidence is normal, and the     *)
(* cone and hemisphere samples are taken on the axis of the cone and of    *)
(* the hemisphere.                                                         *)

\* Vec3::reflect
Reflect(normal, direction) ==
    VSub(direction, VScale(normal, 2 * Dot(normal, direction)))

\* Vec3::reflectance at normal incidence, in units of 1 / UnitRes
Reflectance(normal, direction, iorFrom, iorTo) ==
    ((iorFrom - iorTo) * (iorFrom - iorTo) * UnitRes)
        \div ((iorFrom + iorTo) * (iorFrom + iorTo))

ConeSample(direction, angle, u, v) == direction

FromZ(normal) == [z |-> normal]

HemisphereSample(basis, u, v) == basis.z

\* if (!intersectionRecord) return scene.environment;
MissColour_black(scene) == Black
MissColour(scene) == scene.environment

\* if (renderParams.preview) return mat.diffuse;
PreviewColour_emission(mat) == mat.emission
PreviewColour(mat) == mat.diffuse

RECURSIVE Radiance(_, _, _, _, _)
RECURSIVE SingleRay(_, _, _, _, _, _, _, _, _)
RECURSIVE AccumulateSamples(_, _, _, _, _, _, _, _, _, _)

\* Vec3 singleRay(scene, rng, intersectionRecord, ray, basis, u, v, depth,
\* renderParams): the colour and the generator afterwards
SingleRay(scene, rng, rec, ray, basis, u, v, depth, rp) ==
    LET mat == rec.material
        hit == rec.hit
        p == RngDraw(rng)
        iorFrom == IF hit.inside THEN mat.indexOfRefraction ELSE 1
        iorTo == IF hit.inside THEN 1 ELSE mat.indexOfRefraction
        reflectivity ==
            IF mat.reflectivity < 0
            THEN Reflectance(hit.normal, ray.direction, iorFrom, iorTo)
            ELSE mat.reflectivity
    IN  IF p.value < reflectivity
        THEN LET newRay ==
                     [origin |-> hit.position,
                      direction |->
                          ConeSample(Reflect(hit.normal, ray.direction),
                                     mat.reflectionConeAngleRadians, u, v)]
             IN  Radiance(scene, p.rng, newRay, depth, rp)
        ELSE LET newRay ==
                     [origin |-> hit.position,
                      direction |-> HemisphereSample(basis, u, v)]
                 r == Radiance(scene, p.rng, newRay, depth, rp)
             IN  [colour |-> mat.diffuse * r.colour, rng |-> r.rng]

\* accumulate(cartesian_product(ints(0, numVSamples), ints(0, numUSamples))
\*            | transform(toUVSample) | transform(singleRay...), Vec3()),
\* from the k-th tuple on with the sum `acc` so far
AccumulateSamples(scene, rng, rec, ray, basis, depth, rp, numU, numV, state) ==
    IF state.k >= numU * numV
    THEN [colour |-> state.acc, rng |-> rng]
    ELSE LET v == state.k \div numU
             u == state.k % numU
             du == RngDraw(rng)
             dv == RngDraw(du.rng)
             sampleU == (u * UnitRes + du.value) \div numU
             sampleV == (v * UnitRes + dv.value) \div numV
             s == SingleRay(scene, dv.rng, rec, ray, basis, sampleU, sampleV,
                            depth + 1, rp)
         IN  AccumulateSamples(scene, s.rng, rec, ray, basis, depth, rp,
                               numU, numV,
                               [k |-> state.k + 1,
                                acc |-> state.acc + s.colour])

\* Vec3 radiance(scene, rng, ray, depth, renderParams): the colour and the
\* generator afterwards
Radiance(scene, rng, ray, depth, rp) ==
    LET numUSamples == IF depth = 0 THEN rp.firstBounceUSamples ELSE 1
        numVSamples == IF depth = 0 THEN rp.firstBounceVSamples ELSE 1
    IN  IF depth >= rp.maxDepth
        THEN [colour |-> Black, rng |-> rng]
        ELSE LET intersectionRecord == IntersectScene(scene, ray)
             IN  IF ~intersectionRecord.found
                 THEN [colour |-> MissColour(scene), rng |-> rng]
                 ELSE IF rp.preview
                 THEN [colour |-> PreviewColour(intersectionRecord.material),
                       rng |-> rng]
                 ELSE LET basis == FromZ(intersectionRecord.hit.normal)
                          incomingLight ==
                              AccumulateSamples(scene, rng,
                                  intersectionRecord, ray, basis, depth, rp,
                                  numUSamples, numVSamples,
                                  [k |-> 0, acc |-> Black])
                      IN  [colour |->
                               intersectionRecord.material.emission
                               + incomingLight.colour
                                     \div (numUSamples * numVSamples),
                           rng |-> incomingLight.rng]

MaxPrimitives == 2
MaxDepth == 2

Materials ==
    {[diffuse |-> 2, emission |-> 4, reflectivity |-> 0,
      indexOfRefraction |-> 1, reflectionConeAngleRadians |-> 0],
     [diffuse |-> 3, emission |-> 0, reflectivity |-> UnitRes \div 2,
      indexOfRefraction |-> 1, reflectionConeAngleRadians |-> 0],
     [diffuse |-> 1, emission |-> 8, reflectivity |-> -1,
      indexOfRefraction |-> 3, reflectionConeAngleRadians |-> 0]}

ScenePrimitives ==
    {[sphere |-> [centre |-> Vec(cx, 0, 0), radius |-> 1], material |-> m] :
        cx \in {-3, 3}, m \in Materials}

SceneInputs ==
    {[primitives |-> ps, environment |-> 4] :
        ps \in UNION {[1..n -> ScenePrimitives] : n \in 0..MaxPrimitives}}

RadianceRays ==
    {[origin |-> Vec(ox, 0, 0), direction |-> d] :
        ox \in {-5, 0, 2}, d \in XDirections}

RenderParamsInputs ==
    {[maxDepth |-> md, preview |-> pv,
      firstBounceUSamples |-> n, firstBounceVSamples |-> n] :
        md \in 0..MaxDepth, pv \in BOOLEAN, n \in 1..2}

CallRadiance ==
    /\ call = NoCall
    /\ \E scene \in SceneInputs, ray \in RadianceRays,
          depth \in 0..MaxDepth, rp \in RenderParamsInputs :
        /\ call' = [fn |-> "radiance", scene |-> scene, ray |-> ray,
                    depth |-> depth, renderParams |-> rp]
        /\ ret' = Radiance(scene, 0, ray, depth, rp)
        /\ UNCHANGED renderVars

NextRadiance == CallRadiance

SpecRadiance == InitPure /\ [][NextRadiance]_vars

\* the primitives of the called scene that the called ray hits
HitPrimitives ==
    {i \in DOMAIN call.scene.primitives :
        FpSphereIntersect(call.scene.primitives[i].sphere, call.ray).hit}

HitDistance(i) ==
    FpSphereIntersect(call.scene.primitives[i].sphere, call.ray).distance

\* the ray hits a primitive, a nearest one has diffuse colour ret.colour
ReturnsNearestDiffuse ==
    \E i \in HitPrimitives :
        /\ \A j \in HitPrimitives : HitDistance(i) <= HitDistance(j)
        /\ ret.colour = call.scene.primitives[i].material.diffuse

\* C7 as stated: in preview mode radiance of a ray that hits a primitive is
\* the hit material's diffuse colour for every depth and maxDepth.
C7_PreviewAnyDepth ==
    (/\ call.fn = "radiance"
     /\ call.renderParams.preview
     /\ HitPrimitives # {}) => ReturnsNearestDiffuse

\* C7 amended: in preview mode radiance of a ray that hits a primitive is
\* the hit material's diffuse colour whenever depth < maxDepth, whatever the
\* material's emission; with depth >= maxDepth it is black.
C7_PreviewBelowMaxDepth ==
    (/\ call.fn = "radiance"
     /\ call.renderParams.preview
     /\ HitPrimitives # {}) =>
        IF call.depth < call.renderParams.maxDepth
        THEN ReturnsNearestDiffuse
        ELSE ret.colour = Black

\* C7 witness: a preview call below the depth limit that hits, behind a
\* nearer primitive, a second one of another material.
C7_Witness ==
    /\ call.fn = "radiance"
    /\ call.renderParams.preview
    /\ call.depth < call.renderParams.maxDepth
    /\ Cardinality(HitPrimitives) = 2
    /\ HitDistance(2) < HitDistance(1)
    /\ call.scene.primitives[1].material # call.scene.primitives[2].material
    /\ ret.colour = call.scene.primitives[2].material.diffuse
    /\ ret.colour # call.scene.primitives[2].material.emission

\* C8 as stated: radiance of a ray that misses every primitive is the
\* scene's environment colour for every depth, maxDepth and preview setting.
C8_MissAnyDepth ==
    (/\ call.fn = "radiance"
     /\ HitPrimitives = {}) => ret.colour = call.scene.environment

\* C8 amended: radiance of a ray that misses every primitive is the scene's
\* environment colour whenever depth < maxDepth, for either preview
\* setting; with depth >= maxDepth it is black.
C8_MissBelowMaxDepth ==
    (/\ call.fn = "radiance"
     /\ HitPrimitives = {}) =>
        IF call.depth < call.renderParams.maxDepth
        THEN ret.colour = call.scene.environment
        ELSE ret.colour = Black

\* C8 witness: a call below the depth limit, not in preview mode, whose ray
\* misses both primitives of the scene and returns the environment colour.
C8_Witness ==
    /\ call.fn = "radiance"
    /\ ~call.renderParams.preview
    /\ call.depth < call.renderParams.maxDepth
    /\ Len(call.scene.primitives) = 2
    /\ HitPrimitives = {}
    /\ ret.colour = call.scene.environment
    /\ ret.colour # Black

----------------------------------------------------------------------------
(* renderWholeScreen: the per-pixel generator                              *)

\* std::mt19937 reduces its seed modulo 2^32; every value computed here is
\* far below that, so the reduction changes nothing and is left out.
\* renderParams.height * renderParams.width * seed + x * renderParams.width + y
PixelRngSeed(width, height, frameSeed, x, y) ==
    height * width * frameSeed + x * width + y

\* views::cartesian_product(views::ints(0, height), views::ints(0, width)),
\* each tuple destructured as [y, x]
PixelTuples(width, height) == (0..(height - 1)) \X (0..(width - 1))

\* the generator seed renderOnePixel uses at every tuple of one frame
FrameRngSeeds(width, height, frameSeed) ==
    [tuple \in PixelTuples(width, height) |->
        PixelRngSeed(width, height, frameSeed, tuple[2], tuple[1])]

\* Camera::randomRay (math/Camera.h): one draw of the generator, and a ray
\* from the camera's position along the x axis, forwards or backwards
CameraRandomRay(camera, x, y, rng) ==
    LET d == RngDraw(rng)
    IN  [ray |-> [origin |-> camera.position,
                  direction |-> IF (x + y + d.value) % 2 = 0
                                THEN Vec(1, 0, 0) ELSE Vec(-1, 0, 0)],
         rng |-> d.rng]

\* the lambda renderOnePixel: the colour of the pixel at tuple [y, x]
RenderOnePixel(camera, scene, frameSeed, rp, tuple) ==
    LET y == tuple[1]
        x == tuple[2]
        rng == PixelRngSeed(rp.width, rp.height, frameSeed, x, y) % RngMod
        cam == CameraRandomRay(camera, x, y, rng)
    IN  Radiance(scene, cam.rng, cam.ray, 0, rp).colour

\* ArrayOutput renderWholeScreen(camera, scene, seed, renderParams)
RenderWholeScreen(camera, scene, frameSeed, rp) ==
    [tuple \in PixelTuples(rp.width, rp.height) |->
        RenderOnePixel(camera, scene, frameSeed, rp, tuple)]

MaxDim == 3
MaxFrameSeed == 3

\* the scene and camera the frames below are rendered from: a diffuse
\* emitter in front of the camera, a mirror behind it
FrameScene ==
    [primitives |->
        <<[sphere |-> [centre |-> Vec(3, 0, 0), radius |-> 1],
           material |-> [diffuse |-> 2, emission |-> 4, reflectivity |-> 0,
                         indexOfRefraction |-> 1,
                         reflectionConeAngleRadians |-> 0]],
          [sphere |-> [centre |-> Vec(-3, 0, 0), radius |-> 1],
           material |-> [diffuse |-> 3, emission |-> 0,
                         reflectivity |-> UnitRes \div 2,
                         indexOfRefraction |-> 1,
                         reflectionConeAngleRadians |-> 0]]>>,
     environment |-> 4]

FrameCamera == [position |-> Vec(0, 0, 0)]

FrameParams(width, height) ==
    [width |-> width, height |-> height, maxDepth |-> MaxDepth,
     preview |-> FALSE, firstBounceUSamples |-> 2, firstBounceVSamples |-> 2]

CallRenderWholeScreen ==
    /\ call = NoCall
    /\ \E width \in 1..MaxDim, height \in 1..MaxDim,
          seedA \in 0..MaxFrameSeed, seedB \in 0..MaxFrameSeed :
        /\ call' = [fn |-> "renderWholeScreen", width |-> width,
                    height |-> height, seedA |-> seedA, seedB |-> seedB]
        /\ ret' = [a |-> FrameRngSeeds(width, height, seedA),
                   b |-> FrameRngSeeds(width, height, seedB),
                   frameA |-> RenderWholeScreen(FrameCamera, FrameScene,
                                  seedA, FrameParams(width, height)),
                   frameB |-> RenderWholeScreen(FrameCamera, FrameScene,
                                  seedB, FrameParams(width, height))]
        /\ UNCHANGED renderVars

NextPixelSeed == CallRenderWholeScreen

SpecPixelSeed == InitPure /\ [][NextPixelSeed]_vars

\* C10: the generator seed is specific to the (frame seed, pixel) pair: two
\* (seed, x, y) triples get the same generator seed only if they are equal,
\* within one frame and across frames of different seeds.
C10_PixelSeedInjective ==
    call.fn = "renderWholeScreen" =>
        /\ \A p, q \in DOMAIN ret.a : ret.a[p] = ret.a[q] => p = q
        /\ \A p \in DOMAIN ret.a, q \in DOMAIN ret.b :
               ret.a[p] = ret.b[q] => (call.seedA = call.seedB /\ p = q)

----------------------------------------------------------------------------
(* Claims about fp::render                                                 *)

Range(q) == {q[i] : i \in DOMAIN q}

Ceil(a, b) == (a + b - 1) \div b

InFlight == Cardinality({i \in DOMAIN futures : futures[i].state # "taken"})

RECURSIVE SumSeq(_)
SumSeq(q) == IF q = <<>> THEN 0 ELSE q[1] + SumSeq(Tail(q))

\* C1: with maxCpus >= 1 the calls to renderWholeScreen receive pairwise
\* distinct seeds, and once render returns they are exactly
\* params.seed .. params.seed + samplesPerPixel - 1.
C1_DistinctSeeds ==
    params.maxCpus >= 1 =>
        /\ \A i, j \in DOMAIN received :
               i # j => received[i] # received[j]
        /\ pc = "done" =>
               Range(received) =
                   params.seed .. (params.seed + params.samplesPerPixel - 1)

\* C2: two calls of render with the same parameters return the same
\* accumulator, whatever the scheduling of the workers in either call.
C2_Deterministic ==
    (run = 2 /\ pc = "done") => output = prevOutput

\* C3: every step that writes the accumulator (and counts a sample done) is
\* the orchestrating thread's `output += future.get()` on a future whose
\* worker has finished, and adds exactly that worker's frame; no worker
\* step touches the accumulator.
C3_AccumulatorOwnedByMain ==
    [][/\ (output' # output \/ numDone' # numDone) =>
              /\ pc = "join"
              /\ fi \in DOMAIN futures
              /\ futures[fi].state = "ready"
              /\ futures[fi].arg # NoSeed
              /\ output' = AddOutput(output, Frame(futures[fi].arg))
              /\ futures' = [futures EXCEPT ![fi].state = "taken"]
       /\ (\E i \in DOMAIN futures : WorkerStep(i)) =>
              /\ output' = output
              /\ pc' = pc
              /\ numDone' = numDone]_vars

\* C3 witness: a frame has been merged while another worker of the same
\* batch is still running.
C3_Witness ==
    /\ \E i \in DOMAIN futures : futures[i].state = "taken"
    /\ \E j \in DOMAIN futures :
           futures[j].state \in {"started", "loaded", "rendering"}
    /\ output # ZeroOutput

\* C4: for every maxCpus >= 0 and samplesPerPixel >= 0 render eventually
\* returns, and at return the accumulator is the sum of exactly
\* samplesPerPixel frames.
C4_ReturnsWithAllSamples ==
    /\ <>(pc = "done")
    /\ [](pc = "done" => FramesIn(output) = params.samplesPerPixel)

C6_Batches ==
    params.maxCpus >= 1 =>
        /\ InFlight <= params.maxCpus
        /\ SumSeq(batches) - numDone = InFlight
        /\ pc = "launch" => numDone = sample
        /\ \A b \in DOMAIN batches :
               /\ batches[b] >= 1
               /\ batches[b] <= params.maxCpus
               /\ b < Len(batches) => batches[b] = params.maxCpus
        /\ pc = "done" =>
               Len(batches) = Ceil(params.samplesPerPixel, params.maxCpus)

\* C6 witness: render has returned after a full batch and a partial one.
C6_Witness ==
    /\ pc = "done"
    /\ params.maxCpus >= 2
    /\ Len(batches) = 2
    /\ batches[2] < params.maxCpus

====
